---- MODULE Spec2Model ----
(***************************************************************************)
(* Athena browser-use service (python-service/main.py).                    *)
(*                                                                         *)
(* One HTTP request is followed from its arrival to its response.  The     *)
(* handlers are coroutines: a step of the model is the code a coroutine    *)
(* runs between two awaits.  The external agent (browser_use_sdk) is the   *)
(* environment: it accepts or refuses a task, and it completes a task with *)
(* some result, refuses to, or never answers.                              *)
(*                                                                         *)
(* Python values are records: [k |-> "null"] is None / JSON null,          *)
(* [k |-> "val", v |-> x] a well-typed value, [k |-> "bad"] a value of a    *)
(* type the field's validator rejects (a JSON array where a string or an   *)
(* integer is declared), [k |-> "absent"] a key the JSON object lacks.     *)
(* Strings built by f-strings are sequences of their pieces.               *)
(***************************************************************************)
EXTENDS Integers, Sequences, FiniteSets, TLC

\* Longest "posts" array the agent is taken to return.
MaxPosts == 2

\* ScrapeRequest.max_results when the request body omits it.
DefaultMaxResults == 5

Platforms == {"reddit", "twitter"}

Other(p) == IF p = "reddit" THEN "twitter" ELSE "reddit"

Tickers == {"AAPL", "TSLA"}

Dates == {"2024-01-01", "2024-01-15"}

EndDate == "2024-01-31"

ScrapeRequest ==
    [ticker : Tickers, start_date : Dates, end_date : {EndDate},
     max_results : {1, DefaultMaxResults}]

----------------------------------------------------------------------------
(* Python values *)

PyNone == [k |-> "null"]

Absent == [k |-> "absent"]

Bad == [k |-> "bad"]

Val(x) == [k |-> "val", v |-> x]

----------------------------------------------------------------------------
(* What the agent can hand back: result.output and the JSON inside it *)

FieldNames ==
    {"title", "content", "url", "score", "date", "author", "comments_count"}

\* The values a key of a post object can carry when it is present and well typed.
GoodVals(key) ==
    CASE key = "title" -> {Val(<<"t">>)}
      [] key = "content" -> {Val(<<"c">>)}
      [] key = "url" -> {Val("u")}
      [] key = "score" -> {Val(1234)}
      [] key = "date" -> {Val(d) : d \in Dates}
      [] key = "author" -> {Val("username")}
      [] key = "comments_count" -> {Val(56)}

\* The post of the spec's example: the three required keys and nothing else.
MinimalFields ==
    [key \in FieldNames |->
        CASE key = "title" -> Val(<<"t">>)
          [] key = "content" -> Val(<<"c">>)
          [] key = "url" -> Val("u")
          [] OTHER -> Absent]

\* The post of the prompt's example: every key present.
FullFields ==
    [key \in FieldNames |->
        CASE key = "title" -> Val(<<"t">>)
          [] key = "content" -> Val(<<"c">>)
          [] key = "url" -> Val("u")
          [] key = "score" -> Val(1234)
          [] key = "date" -> Val("2024-01-15")
          [] key = "author" -> Val("username")
          [] key = "comments_count" -> Val(56)]

JsonObject(fields) == [t |-> "object", f |-> fields]

\* Array elements that are no JSON object: a string, null.
JunkElems == {[t |-> "string"], [t |-> "null"]}

\* Post objects: the minimal post with any one key absent, null, ill typed or
\* well typed, and the full post.
PostObjects ==
    {JsonObject(FullFields)} \cup
    {JsonObject([MinimalFields EXCEPT ![key] = x]) :
        key \in FieldNames, x \in {Absent, PyNone, Bad}} \cup
    UNION {{JsonObject([MinimalFields EXCEPT ![key] = x]) : x \in GoodVals(key)} :
        key \in FieldNames}

Elems == PostObjects \cup JunkElems

\* The elements drawn on when both platforms are scraped in one request.
FewElems ==
    {JsonObject(MinimalFields), JsonObject(FullFields),
     JsonObject([MinimalFields EXCEPT !["title"] = PyNone]), [t |-> "string"]}

SeqsUpTo(S, n) == UNION {[1..m -> S] : m \in 0..n}

\* The value under the "posts" key of a JSON object, or NoKey.
NoKey == [t |-> "nokey"]

PostsValues(E) ==
    {NoKey, [t |-> "null"], [t |-> "number"], [t |-> "bool"]} \cup
    {[t |-> "string", len |-> n] : n \in 0..1} \cup
    {[t |-> "dict", len |-> n] : n \in 0..1} \cup
    {[t |-> "array", items |-> s] : s \in SeqsUpTo(E, MaxPosts)}

\* A decoded JSON document: an object (with or without "posts") or something else.
JsonDocs(E) ==
    {[t |-> "null"], [t |-> "number"], [t |-> "string"], [t |-> "array"]} \cup
    {[t |-> "object", posts |-> pv] : pv \in PostsValues(E)}

\* result.output: None, a string that is no JSON, or a string holding a document.
Outputs(E) ==
    {[kind |-> "None"], [kind |-> "text"]} \cup
    {[kind |-> "json", doc |-> d] : d \in JsonDocs(E)}

\* The result of task_response.complete(): with or without an output attribute.
Results(E) ==
    {[hasOutput |-> FALSE]} \cup {[hasOutput |-> TRUE, output |-> o] : o \in Outputs(E)}

NoResult == [hasOutput |-> FALSE, pending |-> TRUE]

\* Messages of the exceptions the agent's client raises.
AgentErrors == {"connection refused", "task failed"}

----------------------------------------------------------------------------
(* Exceptions and what a coroutine hands to its caller *)

Raise(exc) == [exc |-> exc]

Return(x) == [exc |-> "none", val |-> x]

\* str(e) of the exceptions raised while the output is parsed.
ExcMessage(exc) ==
    CASE exc = "TypeError" -> "TypeError while reading the agent output"
      [] exc = "ValidationError" -> "validation error for SocialPost"
      [] OTHER -> exc

SdkMissingDetail ==
    "browser-use-sdk library not installed. Run: pip install browser-use-sdk"

KeyMissingDetail == "BROWSER_USE_API_KEY not configured in .env"

ConfigDetails == {SdkMissingDetail, KeyMissingDetail}

\* raise HTTPException(status_code=500, detail=...)
HTTPException(detail) == [kind |-> "error", status |-> 500, detail |-> detail]

Pending == [kind |-> "pending"]

\* A response whose source is "reddit" on both endpoints.
ScrapeResponseRedditSource(p, req, posts) ==
    [kind |-> "response", ticker |-> req.ticker, posts |-> posts, source |-> "reddit"]

\* ScrapeResponse(ticker=request.ticker, posts=mock_posts, source=..., timestamp=now);
\* the timestamp is the wall clock and is left out.
ScrapeResponse(p, req, posts) ==
    [kind |-> "response", ticker |-> req.ticker, posts |-> posts, source |-> p]

----------------------------------------------------------------------------
(* Parsing the agent's output *)

\* json.loads(result.output)
JsonLoads(o) ==
    CASE o.kind = "None" -> Raise("TypeError")
      [] o.kind = "text" -> Raise("JSONDecodeError")
      [] o.kind = "json" -> Return(o.doc)

\* json.loads(result.output) if hasattr(result, 'output') else {}
ResultData(result) ==
    IF result.hasOutput
    THEN JsonLoads(result.output)
    ELSE Return([t |-> "object", posts |-> NoKey])

\* result_data.get('posts', []): only a dict has .get
GetPosts(doc) ==
    IF doc.t # "object" THEN Raise("AttributeError")
    ELSE IF doc.posts = NoKey THEN Return([t |-> "array", items |-> <<>>])
    ELSE Return(doc.posts)

\* len(posts_data) and then enumerate(posts_data): what the loop iterates over.
\* A string yields its characters and a dict its keys, which are strings.
IterPosts(pv) ==
    CASE pv.t \in {"null", "number", "bool"} -> Raise("TypeError")
      [] pv.t \in {"string", "dict"} -> Return([i \in 1..pv.len |-> [t |-> "string"]])
      [] pv.t = "array" -> Return(pv.items)

\* post.get(key, default)
Get(post, key, default) ==
    IF post.f[key].k = "absent" THEN default ELSE post.f[key]

\* pydantic's check of a required and of an Optional field.
ValidRequired(x) == x.k = "val"

ValidOptional(x) == x.k \in {"val", "null"}

\* A post dated start_date whatever the agent gave.
PostDateStartOnly(req, post) == Val(req.start_date)

\* The date a post gets: the agent's, or the request's start_date when absent.
PostDate(req, post) == Get(post, "date", Val(req.start_date))

\* The platform tag of a parsed post.
PlatformTag(p) == p

\* SocialPost(platform=..., title=post.get('title', ''), ...) for one element.
SocialPostOf(p, req, post) ==
    LET title == Get(post, "title", Val(<<>>))
        content == Get(post, "content", Val(<<>>))
        url == Get(post, "url", Val(""))
        score == Get(post, "score", PyNone)
        date == PostDate(req, post)
        author == Get(post, "author", PyNone)
        comments_count == Get(post, "comments_count", PyNone)
    IN IF /\ ValidRequired(title) /\ ValidRequired(content) /\ ValidRequired(url)
          /\ ValidRequired(date)
          /\ ValidOptional(score) /\ ValidOptional(author)
          /\ ValidOptional(comments_count)
       THEN Return([platform |-> PlatformTag(p), title |-> title, content |-> content,
                    url |-> url, score |-> score, date |-> date, author |-> author,
                    comments_count |-> comments_count])
       ELSE Raise("ValidationError")

\* for i, post in enumerate(posts_data): parsed_posts.append(SocialPost(...))
RECURSIVE ParseLoop(_, _, _, _)
ParseLoop(p, req, items, parsed_posts) ==
    IF items = <<>> THEN Return(parsed_posts)
    ELSE LET post == Head(items)
         IN IF post.t # "object" THEN Raise("AttributeError")
            ELSE LET sp == SocialPostOf(p, req, post)
                 IN IF sp.exc # "none" THEN sp
                    ELSE ParseLoop(p, req, Tail(items), Append(parsed_posts, sp.val))

\* The mock post of each platform.
MockReddit(req) ==
    [platform |-> "reddit", title |-> Val(<<"Discussion about ", req.ticker>>),
     content |-> Val(<<"This is extracted content from the Reddit post...">>),
     url |-> Val("https://reddit.com/r/wallstreetbets/..."), score |-> Val(500),
     date |-> Val(req.start_date), author |-> Val("reddit_user"),
     comments_count |-> Val(50)]

MockTwitter(req) ==
    [platform |-> "twitter", title |-> Val(<<"@financeuser on ", req.ticker>>),
     content |-> Val(<<"Tweet content about ", req.ticker, "...">>),
     url |-> Val("https://twitter.com/..."), score |-> Val(1000),
     date |-> Val(req.start_date), author |-> Val("@financeuser"),
     comments_count |-> Val(25)]

MockPosts(p, req) == IF p = "reddit" THEN <<MockReddit(req)>> ELSE <<MockTwitter(req)>>

\* The parsed posts returned as they are, empty or not.
KeepParsedPosts(p, req, parsed_posts) == parsed_posts

\* mock_posts = parsed_posts if parsed_posts else [SocialPost(...mock...)]

PostsOrMock(p, req, parsed_posts) ==
    IF parsed_posts # <<>> THEN parsed_posts ELSE MockPosts(p, req)

\* The body of the inner try: the parsed posts, or the exception it raises.
TryParse(p, req, result) ==
    LET data == ResultData(result)
    IN IF data.exc # "none" THEN data
       ELSE LET pd == GetPosts(data.val)
            IN IF pd.exc # "none" THEN pd
               ELSE LET it == IterPosts(pd.val)
                    IN IF it.exc # "none" THEN it
                       ELSE ParseLoop(p, req, it.val, <<>>)

\* An inner handler that caught AttributeError alone.
CaughtAttributeErrorOnly(exc) == exc = "AttributeError"

\* except (json.JSONDecodeError, AttributeError)

CaughtByParseHandler(exc) == exc \in {"JSONDecodeError", "AttributeError"}

\* except Exception as e: raise HTTPException(status_code=500, detail=str(e))
GenericFailure(msg) == HTTPException(msg)

\* From the result of complete() to what the handler hands back.
AfterComplete(p, req, result) ==
    LET parsed == TryParse(p, req, result)
    IN IF parsed.exc = "none"
       THEN ScrapeResponse(p, req, PostsOrMock(p, req, parsed.val))
       ELSE IF CaughtByParseHandler(parsed.exc)
            THEN ScrapeResponse(p, req, MockPosts(p, req))
            ELSE GenericFailure(ExcMessage(parsed.exc))

----------------------------------------------------------------------------
(* The service *)

VARIABLES
    api_key,        \* os.getenv("BROWSER_USE_API_KEY")
    sdk_installed,  \* whether browser_use_sdk can be imported
    endpoint,       \* the endpoint the request went to, "none" before it arrives
    request,        \* the ScrapeRequest
    call,           \* the coroutine of scrape_reddit and of scrape_twitter
    both,           \* the coroutine of scrape_both
    health,         \* what health_check returned
    done_order      \* the platforms in the order their coroutines finished

vars == <<api_key, sdk_installed, endpoint, request, call, both, health, done_order>>

NoRequest ==
    [ticker |-> "none", start_date |-> "none", end_date |-> "none", max_results |-> 0]

\* A coroutine that was not created: pc is "idle".  Then "ready" (created, not yet
\* run), "creating" (awaiting create_task), "waiting" (awaiting complete()), and
\* "returned" or "raised".
IdleCall == [pc |-> "idle", submitted |-> 0, result |-> NoResult, outcome |-> Pending]

Finished(c) == c.pc \in {"returned", "raised"}

\* The values the environment variable takes: unset, empty, a key.
ApiKeys == {PyNone, Val(""), Val("bu_key")}

\* bool(x) of an environment value
Truthy(x) == x.k = "val" /\ x.v # ""

\* A key check that let the empty string through ("if api_key is None").
KeyIsSet(key) == key.k = "val"

\* if not api_key: raise HTTPException(...)
KeyConfigured(key) == Truthy(key)

\* The results the agent is taken to produce for a request to this endpoint.
AllResults == Results(Elems)

FewResults == Results(FewElems)

AgentResults == IF endpoint = "both" THEN FewResults ELSE AllResults

Init ==
    /\ api_key \in ApiKeys
    /\ sdk_installed \in BOOLEAN
    /\ endpoint = "none"
    /\ request = NoRequest
    /\ call = [p \in Platforms |-> IdleCall]
    /\ both = [pc |-> "idle", outcome |-> Pending]
    /\ health = Pending
    /\ done_order = <<>>

\* GET /health
health_check ==
    /\ endpoint = "none"
    /\ endpoint' = "health"
    /\ health' = [kind |-> "response", status |-> "healthy",
                  browser_use_configured |-> Truthy(api_key)]
    /\ UNCHANGED <<api_key, sdk_installed, request, call, both, done_order>>

\* POST /scrape/reddit, POST /scrape/twitter: the framework calls the handler.
ReceiveScrape(p, req) ==
    /\ endpoint = "none"
    /\ endpoint' = p
    /\ request' = req
    /\ call' = [call EXCEPT ![p].pc = "ready"]
    /\ UNCHANGED <<api_key, sdk_installed, both, health, done_order>>

\* POST /scrape/both: scrape_both creates the two coroutines and awaits gather.
ReceiveBoth(req) ==
    /\ endpoint = "none"
    /\ endpoint' = "both"
    /\ request' = req
    /\ call' = [p \in Platforms |-> [call[p] EXCEPT !.pc = "ready"]]
    /\ both' = [both EXCEPT !.pc = "gathering"]
    /\ UNCHANGED <<api_key, sdk_installed, health, done_order>>

\* The coroutine ends by raising HTTPException(500, detail): the outer handler
\* turns every exception, the HTTPExceptions of the import and of the key check
\* included, into one with str(e) as its detail.  str() of an HTTPException is
\* taken to be its detail (the framework may put the status code in front).
Fail(p, detail) ==
    /\ call' = [call EXCEPT ![p].pc = "raised", ![p].outcome = GenericFailure(detail)]
    /\ done_order' = Append(done_order, p)

\* A handler that ran again from the top when create_task or complete() raised.
RetryOnFailure(p, detail) ==
    /\ call' = [call EXCEPT ![p].pc = "ready"]
    /\ done_order' = done_order

\* What the handler does when create_task or complete() raises: no retry.
OnAgentFailure(p, detail) == Fail(p, detail)

\* The handler up to its first await: the import, the key, the client, the prompt,
\* and the submission of the task.  gather starts its coroutines in the order it
\* was given them, so scrape_twitter starts after scrape_reddit has run.
Start(p) ==
    /\ call[p].pc = "ready"
    /\ endpoint = "both" /\ p = "twitter" => call["reddit"].pc # "ready"
    /\ IF ~sdk_installed THEN Fail(p, SdkMissingDetail)
       ELSE IF ~KeyConfigured(api_key) THEN Fail(p, KeyMissingDetail)
       ELSE /\ call' = [call EXCEPT ![p].pc = "creating",
                                    ![p].submitted = call[p].submitted + 1]
            /\ done_order' = done_order
    /\ UNCHANGED <<api_key, sdk_installed, endpoint, request, both, health>>

\* await client.tasks.create_task(...) returns the task.
CreateTaskReturns(p) ==
    /\ call[p].pc = "creating"
    /\ call' = [call EXCEPT ![p].pc = "waiting"]
    /\ UNCHANGED <<api_key, sdk_installed, endpoint, request, both, health, done_order>>

\* await client.tasks.create_task(...) raises.
CreateTaskRaises(p, msg) ==
    /\ call[p].pc = "creating"
    /\ OnAgentFailure(p, msg)
    /\ UNCHANGED <<api_key, sdk_installed, endpoint, request, both, health>>

\* await task_response.complete() returns: the output is parsed and the handler
\* returns its response, or raises.
CompleteReturns(p) ==
    /\ call[p].pc = "waiting"
    /\ \E result \in AgentResults :
         LET out == AfterComplete(p, request, result)
         IN call' = [call EXCEPT
                       ![p].pc = IF out.kind = "response" THEN "returned" ELSE "raised",
                       ![p].result = result,
                       ![p].outcome = out]
    /\ done_order' = Append(done_order, p)
    /\ UNCHANGED <<api_key, sdk_installed, endpoint, request, both, health>>

\* await task_response.complete() raises.
CompleteRaises(p, msg) ==
    /\ call[p].pc = "waiting"
    /\ OnAgentFailure(p, msg)
    /\ UNCHANGED <<api_key, sdk_installed, endpoint, request, both, health>>

\* gather without return_exceptions: done at the first exception.
GatherFirstException(c) ==
    \/ \A p \in Platforms : Finished(c[p])
    \/ \E p \in Platforms : c[p].pc = "raised"

\* asyncio.gather(reddit_task, twitter_task, return_exceptions=True) is done.
GatherDone(c) == \A p \in Platforms : Finished(c[p])

\* if not isinstance(x_result, Exception): all_posts.extend(x_result.posts)
PostsOf(c) == IF c.pc = "returned" THEN c.outcome.posts ELSE <<>>

\* Merges that put twitter's posts first, or drop them.
TwitterFirst(c) == PostsOf(c["twitter"]) \o PostsOf(c["reddit"])

RedditOnly(c) == PostsOf(c["reddit"])

\* all_posts: reddit's posts extended by twitter's.
AllPosts(c) == PostsOf(c["reddit"]) \o PostsOf(c["twitter"])

\* scrape_both resumes after gather and returns the merged posts.
BothReturns ==
    /\ both.pc = "gathering"
    /\ GatherDone(call)
    /\ both' = [pc |-> "returned",
                outcome |-> [kind |-> "response", ticker |-> request.ticker,
                             posts |-> AllPosts(call), source |-> "reddit+twitter"]]
    /\ UNCHANGED <<api_key, sdk_installed, endpoint, request, call, health, done_order>>

Next ==
    \/ health_check
    \/ \E p \in Platforms, req \in ScrapeRequest : ReceiveScrape(p, req)
    \/ \E req \in ScrapeRequest : ReceiveBoth(req)
    \/ \E p \in Platforms : Start(p)
    \/ \E p \in Platforms : CreateTaskReturns(p)
    \/ \E p \in Platforms, msg \in AgentErrors : CreateTaskRaises(p, msg)
    \/ \E p \in Platforms : CompleteReturns(p)
    \/ \E p \in Platforms, msg \in AgentErrors : CompleteRaises(p, msg)
    \/ BothReturns

Spec == Init /\ [][Next]_vars

----------------------------------------------------------------------------
(* Vocabulary of the properties *)

\* The agent task of p's call completed and handed back a result.
Completed(p) == call[p].result # NoResult

\* p's call ended because create_task or complete() raised.
AgentUnreachable(p) ==
    /\ call[p].pc = "raised"
    /\ call[p].submitted > 0
    /\ ~Completed(p)

\* The agent's output is a string that is no JSON.
NonJsonOutput(p) ==
    /\ Completed(p)
    /\ call[p].result.hasOutput
    /\ call[p].result.output.kind = "text"

Succeeded(p) == call[p].pc = "returned" /\ call[p].outcome.kind = "response"

Failed500(p) ==
    /\ call[p].pc = "raised"
    /\ call[p].outcome.kind = "error"
    /\ call[p].outcome.status = 500

\* A successful response of exactly one post, dated start_date and tagged p.
OnePostFallback(p) ==
    /\ Succeeded(p)
    /\ Len(call[p].outcome.posts) = 1
    /\ call[p].outcome.posts[1].date = Val(request.start_date)
    /\ call[p].outcome.posts[1].platform = p

\* The agent's output decodes to a JSON object whose "posts" is an array.
PostsArray(p) ==
    /\ Completed(p)
    /\ call[p].result.hasOutput
    /\ call[p].result.output.kind = "json"
    /\ call[p].result.output.doc.t = "object"
    /\ call[p].result.output.doc.posts.t = "array"

Items(p) == call[p].result.output.doc.posts.items

\* An array element that is a post object with every present key well typed
\* (an optional key may also be null).
WellFormedPost(e) ==
    /\ e.t = "object"
    /\ \A key \in {"title", "content", "url", "date"} : e.f[key].k \in {"absent", "val"}
    /\ \A key \in {"score", "author", "comments_count"} :
          e.f[key].k \in {"absent", "null", "val"}

WellFormedArray(p) ==
    /\ PostsArray(p)
    /\ \A i \in 1..Len(Items(p)) : WellFormedPost(Items(p)[i])

\* Post sp is element e mapped for platform p: the keys carried over, '' for an
\* absent required string, None for an absent optional key, and the date as the
\* claim states it.
MappedAs(p, sp, e) ==
    /\ sp.platform = p
    /\ sp.title = (IF e.f["title"] = Absent THEN Val(<<>>) ELSE e.f["title"])
    /\ sp.content = (IF e.f["content"] = Absent THEN Val(<<>>) ELSE e.f["content"])
    /\ sp.url = (IF e.f["url"] = Absent THEN Val("") ELSE e.f["url"])
    /\ \A key \in {"score", "author", "comments_count"} :
          /\ e.f[key] = Absent => sp[key] = PyNone
          /\ e.f[key] # Absent => sp[key] = e.f[key]
    /\ (sp.date = Val(request.start_date))
          <=> (e.f["date"] = Absent \/ e.f["date"] = Val(request.start_date))
    /\ e.f["date"] # Absent => sp.date = e.f["date"]

\* The response holds exactly the array's posts, in the array's order.
MappedInOrder(p) ==
    /\ Succeeded(p)
    /\ Len(call[p].outcome.posts) = Len(Items(p))
    /\ \A i \in 1..Len(Items(p)) : MappedAs(p, call[p].outcome.posts[i], Items(p)[i])

\* The number of posts a platform call contributes to scrape_both.
CountOf(p) == IF Succeeded(p) THEN Len(call[p].outcome.posts) ELSE 0

BothResponded == both.pc = "returned"

----------------------------------------------------------------------------
(* C1 *)

\* C1 as stated: when the agent is unreachable (create_task or complete() raises)
\* or returns output that is not JSON, the call succeeds with exactly one post,
\* dated start_date and tagged with the platform.
C1_FallbackWhenUnreachableOrNonJson ==
    \A p \in Platforms :
        (AgentUnreachable(p) \/ NonJsonOutput(p)) => OnePostFallback(p)

\* C1 amended: a string output that is not JSON yields the one-post fallback
\* (date = start_date, platform = the endpoint's); an unreachable agent yields
\* an error response of status 500 instead.
C1_FallbackOnNonJsonOnly ==
    \A p \in Platforms :
        /\ NonJsonOutput(p) => OnePostFallback(p)
        /\ AgentUnreachable(p) => Failed500(p)

C1_Witness ==
    \E p \in Platforms : NonJsonOutput(p) /\ OnePostFallback(p) /\ endpoint = p

----------------------------------------------------------------------------
(* C2 *)

\* C2: whatever the two platform calls did (each returned or raised), scrape_both
\* returns a normal response with source "reddit+twitter" whose merged list has
\* as many posts as the calls that returned hold together: both counts when both
\* returned, the survivor's when one raised, 0 when both raised.
C2_MergedLength ==
    /\ both.outcome.kind # "error"
    /\ BothResponded =>
          /\ both.outcome.kind = "response"
          /\ both.outcome.source = "reddit+twitter"
          /\ Len(both.outcome.posts) = CountOf("reddit") + CountOf("twitter")
          /\ (\A p \in Platforms : ~Succeeded(p)) => both.outcome.posts = <<>>
          /\ \A p \in Platforms :
                (Succeeded(p) /\ ~Succeeded(Other(p)))
                    => both.outcome.posts = call[p].outcome.posts

C2_Witness ==
    /\ BothResponded
    /\ Failed500("reddit")
    /\ Succeeded("twitter")
    /\ Len(both.outcome.posts) = MaxPosts

----------------------------------------------------------------------------
(* C3 *)

\* C3 as stated: a posts array of k well-formed post objects, 0 <= k <=
\* max_results, yields exactly k posts in the agent's order, each tagged with the
\* platform, dated start_date iff the element omitted "date" (or gave that very
\* date) and otherwise with the agent's date, absent optional keys left unset.
C3_ExactlyKPostsFromZero ==
    \A p \in Platforms :
        (WellFormedArray(p) /\ Len(Items(p)) <= request.max_results)
            => MappedInOrder(p)

\* C3 amended: the same for 1 <= k <= max_results; an empty array (k = 0) yields
\* the one mock post instead of no post.
C3_ExactlyKPostsFromOne ==
    \A p \in Platforms :
        (WellFormedArray(p) /\ Len(Items(p)) <= request.max_results) =>
            /\ Len(Items(p)) >= 1 => MappedInOrder(p)
            /\ Len(Items(p)) = 0 => OnePostFallback(p)

C3_Witness ==
    \E p \in Platforms :
        /\ WellFormedArray(p)
        /\ Len(Items(p)) = MaxPosts
        /\ Len(Items(p)) <= request.max_results
        /\ Items(p)[1].f["date"] = Absent
        /\ Items(p)[MaxPosts].f["date"] = Val("2024-01-15")
        /\ request.start_date = "2024-01-01"
        /\ MappedInOrder(p)

----------------------------------------------------------------------------
(* C4 *)

\* C4: once the agent task has completed, whatever the output, malformed or
\* absent, the call returns a successful response and never an error.
C4_EveryOutputRecovered ==
    \A p \in Platforms : Completed(p) => Succeeded(p)

----------------------------------------------------------------------------
(* C5 *)

\* C5: with BROWSER_USE_API_KEY unset or empty, a platform call never submits a
\* task and can only end in a configuration error of status 500, and
\* health_check answers with browser_use_configured = false.
C5_NoKeyNoSubmission ==
    (api_key = PyNone \/ api_key = Val("")) =>
        /\ \A p \in Platforms :
              /\ call[p].submitted = 0
              /\ call[p].pc \in {"idle", "ready", "raised"}
              /\ call[p].pc = "raised" =>
                    /\ Failed500(p)
                    /\ call[p].outcome.detail \in ConfigDetails
        /\ endpoint = "health" =>
              /\ health.kind = "response"
              /\ health.browser_use_configured = FALSE

C5_Witness ==
    /\ api_key = Val("")
    /\ sdk_installed
    /\ \E p \in Platforms :
          Failed500(p) /\ call[p].outcome.detail = KeyMissingDetail

----------------------------------------------------------------------------
(* C6 *)

\* C6: the merged list of scrape_both is the Reddit call's posts in their order
\* followed by the Twitter call's posts in theirs, so no Twitter post precedes a
\* Reddit post, whichever call finished first.
C6_RedditThenTwitter ==
    BothResponded =>
        LET merged == both.outcome.posts
            r == IF Succeeded("reddit") THEN call["reddit"].outcome.posts ELSE <<>>
            t == IF Succeeded("twitter") THEN call["twitter"].outcome.posts ELSE <<>>
        IN /\ SubSeq(merged, 1, Len(r)) = r
           /\ SubSeq(merged, Len(r) + 1, Len(merged)) = t
           /\ \A i, j \in 1..Len(merged) :
                 (merged[i].platform = "twitter" /\ merged[j].platform = "reddit")
                     => j < i

C6_Witness ==
    /\ BothResponded
    /\ done_order = <<"twitter", "reddit">>
    /\ Succeeded("reddit") /\ Succeeded("twitter")
    /\ both.outcome.posts[1].platform = "reddit"
    /\ both.outcome.posts[Len(both.outcome.posts)].platform = "twitter"

----------------------------------------------------------------------------
(* C7 *)

\* C7: every response of scrape_reddit and of scrape_twitter, genuine or mock,
\* carries the request's ticker and the platform's name as its source.
C7_TickerAndSourceEchoed ==
    \A p \in Platforms :
        call[p].outcome.kind = "response" =>
            /\ call[p].outcome.ticker = request.ticker
            /\ call[p].outcome.source = p

C7_Witness ==
    /\ Succeeded("twitter")
    /\ request.ticker = "TSLA"
    /\ call["twitter"].outcome.source = "twitter"
    /\ call["twitter"].outcome.ticker = "TSLA"

----------------------------------------------------------------------------
(* C8 *)

\* C8: a platform call submits at most one task; when submission or completion
\* raises, the call ends with status 500 carrying the exception's message and
\* nothing is submitted again; one scrape_both call submits at most two tasks.
C8_AtMostOneSubmission ==
    /\ \A p \in Platforms :
          /\ call[p].submitted <= 1
          /\ AgentUnreachable(p) =>
                /\ Failed500(p)
                /\ call[p].outcome.detail \in AgentErrors
                /\ call[p].submitted = 1
    /\ call["reddit"].submitted + call["twitter"].submitted <= 2
    /\ endpoint \in Platforms => call[Other(endpoint)].submitted = 0

C8_Witness ==
    /\ endpoint = "both"
    /\ AgentUnreachable("reddit")
    /\ call["reddit"].outcome.detail = "connection refused"
    /\ call["twitter"].submitted = 1
    /\ BothResponded

----------------------------------------------------------------------------
(* C9 *)

\* C9: scrape_both responds only after both platform calls have finished (each
\* returned or raised); until then it has produced nothing, also when one call
\* has already failed or returned, and the call that finishes last still
\* contributes its posts.
C9_RespondsOnlyAfterBoth ==
    /\ BothResponded => \A p \in Platforms : Finished(call[p])
    /\ (\E p \in Platforms : ~Finished(call[p])) => both.outcome = Pending
    /\ BothResponded =>
          \A p \in Platforms :
              Succeeded(p) => Len(both.outcome.posts) >= Len(call[p].outcome.posts)

C9_Witness ==
    /\ BothResponded
    /\ done_order = <<"reddit", "twitter">>
    /\ AgentUnreachable("reddit")
    /\ Succeeded("twitter")
    /\ both.outcome.posts = call["twitter"].outcome.posts

----------------------------------------------------------------------------
(* C10 *)

\* The parsed posts array is empty: no output attribute, no "posts" key, or an
\* empty "posts" array.
NothingParsed(p) ==
    /\ Completed(p)
    /\ \/ ~call[p].result.hasOutput
       \/ /\ call[p].result.output.kind = "json"
          /\ call[p].result.output.doc.t = "object"
          /\ \/ call[p].result.output.doc.posts = NoKey
             \/ /\ call[p].result.output.doc.posts.t = "array"
                /\ call[p].result.output.doc.posts.items = <<>>

\* C10: a successful platform response never has an empty post list; when
\* nothing was parsed it holds the platform's one mock post, dated start_date;
\* so the merged list of scrape_both is empty only if both calls raised.
C10_NeverEmpty ==
    /\ \A p \in Platforms :
          /\ Succeeded(p) => Len(call[p].outcome.posts) >= 1
          /\ NothingParsed(p) =>
                /\ OnePostFallback(p)
                /\ call[p].outcome.posts[1].score = Val(IF p = "reddit" THEN 500 ELSE 1000)
                /\ call[p].outcome.posts[1].author
                      = Val(IF p = "reddit" THEN "reddit_user" ELSE "@financeuser")
    /\ (BothResponded /\ both.outcome.posts = <<>>)
          => \A p \in Platforms : call[p].pc = "raised"

C10_Witness ==
    \E p \in Platforms :
        /\ PostsArray(p)
        /\ Items(p) = <<>>
        /\ OnePostFallback(p)

====
